---- MODULE Spec2Model ----
(***************************************************************************)
(* StaticGridEnv (env.py): a 10x10 grid world with five obstacle cells and *)
(* a goal in the bottom-right corner.  reset() draws a start cell by       *)
(* rejection sampling from numpy's global generator, step(action) moves    *)
(* the agent and returns (state, reward, done, info), render() and close() *)
(* open and release the pygame display.                                    *)
(* plot_comparison_with_baseline (utils.py): checks its algorithm label    *)
(* and draws one figure.                                                   *)
(*                                                                         *)
(* Spec        one instance: reset and step                                *)
(* SpecFair    Spec with fair sampling in reset                            *)
(* SpecRender  one instance: reset, step, render and close                 *)
(* SpecSeed    two instances constructed with the same seed                *)
(* SpecPlot    calls of plot_comparison_with_baseline                      *)
(***************************************************************************)
EXTENDS Integers, Sequences, FiniteSets, TLC

VARIABLES
    grid_size,  \* self.grid_size
    obstacles,  \* self.obstacles
    goal,       \* self.goal
    state,   \* self.state: None, or the agent's cell <<x, y>>
    pc,      \* "idle" between calls, "reset" inside the while-loop of reset(),
             \* "exited" once quit() has ended the process
    last,    \* the last completed call: what was called and what it returned
    np_stream, \* numpy's global generator: the cells it yields after seed(s)
    np_pos,    \* numpy's global generator: how many of them have been drawn
    envs,      \* two StaticGridEnv(seed = s) instances and what they returned
    render_initialized, \* self.render_initialized
    display,   \* pygame's display surface: "closed" or "open"
    rendered,  \* render() was called since construction or the last close()
    rlast,     \* the last render()/close() call and how it ended
    plot,      \* the running or last plot_comparison_with_baseline() call
    figures    \* how many matplotlib figures exist

fieldVars == <<grid_size, obstacles, goal>>

envVars == <<state, pc, last, fieldVars>>

seedVars == <<np_stream, np_pos, envs>>

renderVars == <<render_initialized, display, rendered, rlast>>

plotVars == <<plot, figures>>

vars == <<envVars, seedVars, renderVars, plotVars>>

\* ------------------------------------------------------------ constants

\* self.state = None
None == <<>>

\* How far the action codes handed to step() reach beyond the four valid ones.
ActionPad == 2

Actions == (0 - ActionPad) .. (3 + ActionPad)

\* np.random.randint(0, self.grid_size): any of 0 .. grid_size-1
RandInt == 0 .. (grid_size - 1)

InBounds(p) == /\ Len(p) = 2
               /\ p[1] \in 0 .. (grid_size - 1)
               /\ p[2] \in 0 .. (grid_size - 1)

\* ---------------------------------------------------------------- reset

\* Mutant: the sampled cell is tested against the obstacles only.
AcceptObstaclesOnly(start_x, start_y) ==
    <<start_x, start_y>> \notin obstacles

\* The test that ends the sampling loop of reset().
Accept(start_x, start_y) ==
    /\ <<start_x, start_y>> \notin obstacles
    /\ <<start_x, start_y>> # goal

\* ----------------------------------------------------------------- step

\* Mutant: "down" is not stopped at the bottom edge.
NextCellNoBound(s, action) ==
    LET x == s[1]
        y == s[2]
    IN  IF action = 0 /\ x > 0 THEN <<x - 1, y>>
        ELSE IF action = 1 THEN <<x + 1, y>>
        ELSE IF action = 2 /\ y > 0 THEN <<x, y - 1>>
        ELSE IF action = 3 /\ y < grid_size - 1 THEN <<x, y + 1>>
        ELSE <<x, y>>

\* Mutant: "up" jumps two cells where there is room.
NextCellJump(s, action) ==
    LET x == s[1]
        y == s[2]
    IN  IF action = 0 /\ x > 1 THEN <<x - 2, y>>
        ELSE IF action = 0 /\ x > 0 THEN <<x - 1, y>>
        ELSE IF action = 1 /\ x < grid_size - 1 THEN <<x + 1, y>>
        ELSE IF action = 2 /\ y > 0 THEN <<x, y - 1>>
        ELSE IF action = 3 /\ y < grid_size - 1 THEN <<x, y + 1>>
        ELSE <<x, y>>

\* Mutant: the bottom and right edges are taken one cell too early.
NextCellOffByOne(s, action) ==
    LET x == s[1]
        y == s[2]
    IN  IF action = 0 /\ x > 0 THEN <<x - 1, y>>
        ELSE IF action = 1 /\ x < grid_size - 2 THEN <<x + 1, y>>
        ELSE IF action = 2 /\ y > 0 THEN <<x, y - 1>>
        ELSE IF action = 3 /\ y < grid_size - 2 THEN <<x, y + 1>>
        ELSE <<x, y>>

\* Mutant: left and right are swapped.
NextCellSwapped(s, action) ==
    LET x == s[1]
        y == s[2]
    IN  IF action = 0 /\ x > 0 THEN <<x - 1, y>>
        ELSE IF action = 1 /\ x < grid_size - 1 THEN <<x + 1, y>>
        ELSE IF action = 3 /\ y > 0 THEN <<x, y - 1>>
        ELSE IF action = 2 /\ y < grid_size - 1 THEN <<x, y + 1>>
        ELSE <<x, y>>

\* Mutant: the last branch is a plain else, so any other code moves right.
NextCellElse(s, action) ==
    LET x == s[1]
        y == s[2]
    IN  IF action = 0 /\ x > 0 THEN <<x - 1, y>>
        ELSE IF action = 1 /\ x < grid_size - 1 THEN <<x + 1, y>>
        ELSE IF action = 2 /\ y > 0 THEN <<x, y - 1>>
        ELSE IF y < grid_size - 1 THEN <<x, y + 1>>
        ELSE <<x, y>>

\* (next_x, next_y) after the if/elif chain of step().
NextCell(s, action) ==
    LET x == s[1]
        y == s[2]
    IN  IF action = 0 /\ x > 0 THEN <<x - 1, y>>
        ELSE IF action = 1 /\ x < grid_size - 1 THEN <<x + 1, y>>
        ELSE IF action = 2 /\ y > 0 THEN <<x, y - 1>>
        ELSE IF action = 3 /\ y < grid_size - 1 THEN <<x, y + 1>>
        ELSE <<x, y>>

\* Mutant: the obstacle test is missing.
MoveNoObstacle(s, next) ==
    [pos |-> next, reward |-> -1]

\* Mutant: an obstacle blocks the move but costs the normal step penalty.
MoveObstacleCost(s, next) ==
    IF next \in obstacles
    THEN [pos |-> s, reward |-> -1]
    ELSE [pos |-> next, reward |-> -1]

\* Mutant: any move that does not change the cell is charged as a collision.
MoveBlockedCost(s, next) ==
    IF next \in obstacles \/ next = s
    THEN [pos |-> s, reward |-> -5]
    ELSE [pos |-> next, reward |-> -1]

\* The obstacle test of step(): the new self.state and the reward so far.
Move(s, next) ==
    IF next \in obstacles
    THEN [pos |-> s, reward |-> -5]
    ELSE [pos |-> next, reward |-> -1]

\* Mutant: done is set at the goal but the reward is not overridden.
StepReturnNoOverride(s, action) ==
    LET m == Move(s, NextCell(s, action))
    IN  IF m.pos = goal
        THEN [pos |-> m.pos, reward |-> m.reward, done |-> TRUE]
        ELSE [pos |-> m.pos, reward |-> m.reward, done |-> FALSE]

\* Mutant: once on the goal the episode stays finished.
StepReturnAbsorbing(s, action) ==
    LET m == Move(s, NextCell(s, action))
    IN  IF s = goal
        THEN [pos |-> s, reward |-> 0, done |-> TRUE]
        ELSE IF m.pos = goal
        THEN [pos |-> m.pos, reward |-> 20, done |-> TRUE]
        ELSE [pos |-> m.pos, reward |-> m.reward, done |-> FALSE]

\* What step(action) returns from self.state = s (info, always {}, left out).
StepReturn(s, action) ==
    LET m == Move(s, NextCell(s, action))
    IN  IF m.pos = goal
        THEN [pos |-> m.pos, reward |-> 20, done |-> TRUE]
        ELSE [pos |-> m.pos, reward |-> m.reward, done |-> FALSE]

\* ------------------------------------------------- numpy's global RNG

\* The two instances of the same-seed scenario.
Envs == {"a", "b"}

\* How many cells of the seeded stream are modelled.
StreamLen == 3

\* How many reset/step calls each instance makes.
MaxCalls == 2

\* The cells the seeded stream is made of: two free cells and an obstacle.
DrawCells == {<<0, 0>>, <<0, 1>>, <<1, 1>>}

\* What a step(action) call gives its caller from self.state = s: the
\* returned tuple, or the error raised by unpacking None.
StepOut(s, action) ==
    IF s = None
    THEN [pos |-> None, reward |-> 0, done |-> FALSE, raised |-> TRUE]
    ELSE LET r == StepReturn(s, action)
         IN  [pos |-> r.pos, reward |-> r.reward, done |-> r.done,
              raised |-> FALSE]

\* The draws of the stream after position p that end reset()'s loop.
AcceptedAfter(p) ==
    {i \in (p + 1) .. Len(np_stream) :
        Accept(np_stream[i][1], np_stream[i][2])}

Min(S) == CHOOSE i \in S : \A j \in S : i <= j

\* -------------------------------------------------------------- actions

\* __init__: self.state = None, nothing called yet.
EnvInit ==
    /\ grid_size = 10
    /\ obstacles = {<<1, 1>>, <<2, 2>>, <<3, 3>>, <<4, 4>>, <<5, 5>>}
    /\ goal = <<grid_size - 1, grid_size - 1>>
    /\ state = None
    /\ pc = "idle"
    /\ last = [op |-> "init", action |-> 0, pre |-> None,
               pos |-> None, reward |-> 0, done |-> FALSE]

\* No instance of the two-instance scenario exists.
NoEnv == [made |-> FALSE, state |-> None, calls |-> <<>>, outs |-> <<>>]

SeedIdle ==
    /\ np_stream = <<>>
    /\ np_pos = 0
    /\ envs = [e \in Envs |-> NoEnv]

\* __init__: self.screen = None, self.render_initialized = False.
RenderInit ==
    /\ render_initialized = FALSE
    /\ display = "closed"
    /\ rendered = FALSE
    /\ rlast = [op |-> "init", first |-> FALSE, setup |-> "none",
                end |-> "return"]

\* No plot call yet, no figure.
PlotInit ==
    /\ plot = [pc |-> "idle", algorithm |-> "", availability |-> 0,
               accuracies |-> <<>>, selected |-> {}, end |-> "none",
               made |-> 0]
    /\ figures = 0

Init ==
    /\ EnvInit
    /\ SeedIdle
    /\ RenderInit
    /\ PlotInit

\* reset() is called and enters its while True loop.
ResetCall ==
    /\ pc = "idle"
    /\ pc' = "reset"
    /\ UNCHANGED <<state, last, fieldVars>>
    /\ UNCHANGED <<seedVars, renderVars, plotVars>>

\* Mutant: the accepted cell is stored but the loop is not left.
ResetSampleNoBreak ==
    /\ pc = "reset"
    /\ \E start_x \in RandInt, start_y \in RandInt :
          \/ /\ Accept(start_x, start_y)
             /\ state' = <<start_x, start_y>>
             /\ UNCHANGED <<pc, last, fieldVars>>
          \/ /\ ~Accept(start_x, start_y)
             /\ UNCHANGED envVars
    /\ UNCHANGED <<seedVars, renderVars, plotVars>>

\* One pass of the loop: draw a cell; keep it and return, or draw again.
ResetSample ==
    /\ pc = "reset"
    /\ \E start_x \in RandInt, start_y \in RandInt :
          \/ /\ Accept(start_x, start_y)
             /\ state' = <<start_x, start_y>>
             /\ pc' = "idle"
             /\ last' = [op |-> "reset", action |-> 0, pre |-> state,
                         pos |-> <<start_x, start_y>>, reward |-> 0,
                         done |-> FALSE]
             /\ UNCHANGED fieldVars
          \/ /\ ~Accept(start_x, start_y)
             /\ UNCHANGED envVars
    /\ UNCHANGED <<seedVars, renderVars, plotVars>>

\* Mutant: a collision also knocks the obstacle off the grid.
StepClearsObstacle ==
    /\ pc = "idle"
    /\ state # None
    /\ \E action \in Actions :
          LET r == StepReturn(state, action)
              next == NextCell(state, action)
          IN  /\ state' = r.pos
              /\ obstacles' = obstacles \ {next}
              /\ last' = [op |-> "step", action |-> action, pre |-> state,
                          pos |-> r.pos, reward |-> r.reward, done |-> r.done]
    /\ UNCHANGED <<pc, grid_size, goal>>
    /\ UNCHANGED <<seedVars, renderVars, plotVars>>

\* step(action) with a position set.
Step ==
    /\ pc = "idle"
    /\ state # None
    /\ \E action \in Actions :
          LET r == StepReturn(state, action)
          IN  /\ state' = r.pos
              /\ last' = [op |-> "step", action |-> action, pre |-> state,
                          pos |-> r.pos, reward |-> r.reward, done |-> r.done]
    /\ UNCHANGED <<pc, fieldVars>>
    /\ UNCHANGED <<seedVars, renderVars, plotVars>>

\* Mutant: an unset position is taken to be the origin.
StepUnsetFromOrigin ==
    /\ pc = "idle"
    /\ state = None
    /\ \E action \in Actions :
          LET r == StepReturn(<<0, 0>>, action)
          IN  /\ state' = r.pos
              /\ last' = [op |-> "step", action |-> action, pre |-> None,
                          pos |-> r.pos, reward |-> r.reward, done |-> r.done]
    /\ UNCHANGED <<pc, fieldVars>>
    /\ UNCHANGED <<seedVars, renderVars, plotVars>>

\* step(action) before any reset: "x, y = self.state" raises on None.
StepUnset ==
    /\ pc = "idle"
    /\ state = None
    /\ \E action \in Actions :
          last' = [op |-> "raise", action |-> action, pre |-> None,
                   pos |-> None, reward |-> 0, done |-> FALSE]
    /\ UNCHANGED <<state, pc, fieldVars>>
    /\ UNCHANGED <<seedVars, renderVars, plotVars>>

Next == ResetCall \/ ResetSample \/ Step \/ StepUnset

Spec == Init /\ [][Next]_vars

\* Fair sampling: the generator does not yield rejected cells forever, so a
\* running reset() loop eventually draws a cell it accepts.
SpecFair == Init /\ [][Next]_vars /\ WF_vars(ResetSample)

\* ------------------------------------------------------------- renderer

\* The "if not self.render_initialized" block of render(): pygame.init() and
\* set_mode() open the display, then the three images are loaded, which
\* raises when a file is missing, and only then is the flag set.
RenderSetup(initialized, shown, assets) ==
    IF initialized
    THEN [initialized |-> TRUE, display |-> shown, setup |-> "none"]
    ELSE IF assets
    THEN [initialized |-> TRUE, display |-> "open", setup |-> "done"]
    ELSE [initialized |-> FALSE, display |-> "open", setup |-> "aborted"]

\* close(): pygame.quit() and the flag cleared, only if the flag is set.
CloseEffect(initialized, shown) ==
    IF initialized
    THEN [initialized |-> FALSE, display |-> "closed"]
    ELSE [initialized |-> FALSE, display |-> shown]

\* render(): the setup if needed; a QUIT event in the queue makes it call
\* pygame.quit() and quit(); drawing the agent raises while self.state is
\* None.
Render ==
    /\ pc = "idle"
    /\ \E assets \in BOOLEAN, quit_event \in BOOLEAN :
          LET s == RenderSetup(render_initialized, display, assets)
              end == IF s.setup = "aborted" THEN "raise"
                     ELSE IF quit_event THEN "exit"
                     ELSE IF state = None THEN "raise"
                     ELSE "return"
          IN  /\ render_initialized' = s.initialized
              /\ display' = IF end = "exit" THEN "closed" ELSE s.display
              /\ pc' = IF end = "exit" THEN "exited" ELSE pc
              /\ rlast' = [op |-> "render", first |-> ~rendered,
                           setup |-> s.setup, end |-> end]
    /\ rendered' = TRUE
    /\ UNCHANGED <<state, last, fieldVars, seedVars, plotVars>>

Close ==
    /\ pc = "idle"
    /\ LET c == CloseEffect(render_initialized, display)
       IN  /\ render_initialized' = c.initialized
           /\ display' = c.display
    /\ rendered' = FALSE
    /\ rlast' = [op |-> "close", first |-> ~rendered, setup |-> "none",
                 end |-> "return"]
    /\ UNCHANGED <<envVars, seedVars, plotVars>>

NextRender ==
    ResetCall \/ ResetSample \/ Step \/ StepUnset \/ Render \/ Close

SpecRender == Init /\ [][NextRender]_vars

\* -------------------------------------------------------------- plotter

\* The algorithm labels handed to plot_comparison_with_baseline().
Labels == {"Q-learning", "SARSA", "q-learning", "sarsa", "DQN", ""}

\* The rows of df_learning: availability and accuracy, in percent.
Table == {[availability |-> 80, accuracy |-> 50],
          [availability |-> 80, accuracy |-> 90],
          [availability |-> 50, accuracy |-> 50]}

TableAccuracies == {r.accuracy : r \in Table}

\* accuracies = None, or a list of accuracies given as <<set>>.
AccuracyArgs == {<<>>} \cup {<<S>> : S \in SUBSET TableAccuracies}

\* How many figures may pile up before the caller stops plotting.
MaxFigures == 2

\* Mutant: the label is compared without regard to case.
ValidAlgorithmAnyCase(algorithm) ==
    algorithm \in {"Q-learning", "SARSA", "q-learning", "sarsa"}

\* algorithm == "Q-learning" or algorithm == "SARSA"
ValidAlgorithm(algorithm) ==
    algorithm = "Q-learning" \/ algorithm = "SARSA"

\* The call and its test of the label: ValueError for any other label.
PlotCall ==
    /\ plot.pc = "idle"
    /\ figures < MaxFigures
    /\ \E algorithm \in Labels, availability \in {50, 80},
          accuracies \in AccuracyArgs :
          plot' = [pc |-> IF ValidAlgorithm(algorithm)
                          THEN "select" ELSE "idle",
                   algorithm |-> algorithm,
                   availability |-> availability,
                   accuracies |-> accuracies,
                   selected |-> {},
                   end |-> IF ValidAlgorithm(algorithm)
                           THEN "running" ELSE "ValueError",
                   made |-> 0]
    /\ UNCHANGED <<figures, envVars, seedVars, renderVars>>

\* accuracies defaults to every accuracy of the table; the rows are selected.
PlotSelect ==
    /\ plot.pc = "select"
    /\ LET wanted == IF plot.accuracies = <<>> THEN TableAccuracies
                     ELSE plot.accuracies[1]
       IN  plot' = [plot EXCEPT
                 !.pc = "chart",
                 !.selected = {r \in Table :
                                 /\ r.availability = plot.availability
                                 /\ r.accuracy \in wanted}]
    /\ UNCHANGED <<figures, envVars, seedVars, renderVars>>

\* plt.subplots() creates the figure, the three axes are drawn and shown.
PlotChart ==
    /\ plot.pc = "chart"
    /\ figures' = figures + 1
    /\ plot' = [plot EXCEPT !.pc = "idle", !.end = "return",
                            !.made = @ + 1]
    /\ UNCHANGED <<envVars, seedVars, renderVars>>

NextPlot == PlotCall \/ PlotSelect \/ PlotChart

SpecPlot == Init /\ [][NextPlot]_vars

\* ------------------------------------- two instances with the same seed

\* StaticGridEnv(seed = s): np.random.seed(s) restarts the global stream.
Construct(e) ==
    /\ ~envs[e].made
    /\ envs' = [envs EXCEPT ![e].made = TRUE]
    /\ np_pos' = 0
    /\ UNCHANGED <<np_stream, envVars, renderVars, plotVars>>

\* e.reset(): draws from the global stream until a cell is accepted.
SeededReset(e) ==
    /\ envs[e].made
    /\ Len(envs[e].calls) < MaxCalls
    /\ AcceptedAfter(np_pos) # {}
    /\ LET i == Min(AcceptedAfter(np_pos))
       IN  /\ np_pos' = i
           /\ envs' = [envs EXCEPT
                 ![e].state = np_stream[i],
                 ![e].calls = Append(@, [op |-> "reset", action |-> 0]),
                 ![e].outs = Append(@, [pos |-> np_stream[i], reward |-> 0,
                                        done |-> FALSE, raised |-> FALSE])]
    /\ UNCHANGED <<np_stream, envVars, renderVars, plotVars>>

\* e.step(action): no random draw.
SeededStep(e) ==
    /\ envs[e].made
    /\ Len(envs[e].calls) < MaxCalls
    /\ \E action \in 0 .. 3 :
          LET r == StepOut(envs[e].state, action)
          IN  envs' = [envs EXCEPT
                 ![e].state = IF r.raised THEN @ ELSE r.pos,
                 ![e].calls = Append(@, [op |-> "step", action |-> action]),
                 ![e].outs = Append(@, r)]
    /\ UNCHANGED <<np_stream, np_pos, envVars, renderVars, plotVars>>

\* Any generator: the stream that follows seed(s) is fixed but arbitrary.
InitSeed ==
    /\ EnvInit
    /\ np_stream \in [1 .. StreamLen -> DrawCells]
    /\ np_pos = 0
    /\ envs = [e \in Envs |-> NoEnv]
    /\ RenderInit
    /\ PlotInit

NextSeed ==
    \E e \in Envs : Construct(e) \/ SeededReset(e) \/ SeededStep(e)

SpecSeed == InitSeed /\ [][NextSeed]_vars

\* --------------------------------------------------------------- claims

Returned(name) == pc = "idle" /\ last.op = name

\* step() was the last call, from a cell other than the goal.
NonTerminalStep == Returned("step") /\ last.pre # goal

\* C1: every position reset() returns is the stored agent position, lies
\* inside the 10x10 grid, is no obstacle cell and is not the goal (9,9),
\* whatever was drawn and whatever calls came before.
C1_ResetPositionFree ==
    Returned("reset") =>
        /\ state = last.pos
        /\ InBounds(last.pos)
        /\ last.pos \notin obstacles
        /\ last.pos # goal

\* C1 witness: a reset() that returned after an episode had reached the goal.
C1_Witness ==
    /\ Returned("reset")
    /\ last.pre = goal
    /\ last.pos = <<9, 8>>

\* C2: once a position is set, the agent position (row, col) satisfies
\* 0 <= row < 10 and 0 <= col < 10, for any action codes, valid or not.
C2_PositionInBounds ==
    state # None => InBounds(state)

\* C2 witness: "down" was asked for on the bottom row and the agent is
\* still on the grid.
C2_Witness ==
    /\ Returned("step")
    /\ last.action = 1
    /\ last.pre = <<grid_size - 1, 0>>
    /\ state = <<grid_size - 1, 0>>

\* C3: the agent position is never an obstacle cell, and a step whose
\* computed next cell is an obstacle leaves the agent on its pre-step cell.
C3_NeverOnObstacle ==
    /\ state \notin obstacles
    /\ (Returned("step") /\ NextCell(last.pre, last.action) \in obstacles)
          => state = last.pre

\* C3 witness: a step aimed at an obstacle cell has been taken.
C3_Witness ==
    /\ Returned("step")
    /\ last.action \in 0 .. 3
    /\ NextCell(last.pre, last.action) \in obstacles
    /\ state = last.pre

\* The cell an action 0..3 points at: 0 row-1, 1 row+1, 2 col-1, 3 col+1.
Target(s, action) ==
    IF action = 0 THEN <<s[1] - 1, s[2]>>
    ELSE IF action = 1 THEN <<s[1] + 1, s[2]>>
    ELSE IF action = 2 THEN <<s[1], s[2] - 1>>
    ELSE <<s[1], s[2] + 1>>

Abs(n) == IF n < 0 THEN 0 - n ELSE n

\* The position changed by exactly one cell along the axis the action names.
OneCellAlongAxis(from, to, action) ==
    IF action \in {0, 1}
    THEN to[2] = from[2] /\ Abs(to[1] - from[1]) = 1
    ELSE to[1] = from[1] /\ Abs(to[2] - from[2]) = 1

ObstacleBlocked == last.pos = last.pre /\ last.reward = -5
BoundaryBlocked == last.pos = last.pre /\ last.reward = -1
MovedOneCell ==
    OneCellAlongAxis(last.pre, last.pos, last.action) /\ last.reward = -1
MovedOntoGoal ==
    /\ OneCellAlongAxis(last.pre, last.pos, last.action)
    /\ last.pos = goal
    /\ last.reward = 20
    /\ last.done

HowMany(outcomes) == Cardinality({i \in DOMAIN outcomes : outcomes[i]})

\* C4 as stated: from a non-terminal position each action 0..3 gives exactly
\* one of: unchanged with -5, unchanged with -1, moved one cell with -1.
C4_ThreeOutcomes ==
    (NonTerminalStep /\ last.action \in 0 .. 3) =>
        /\ state = last.pos
        /\ HowMany(<<ObstacleBlocked, BoundaryBlocked, MovedOneCell>>) = 1

\* C4 as amended: from a non-terminal position each action 0..3 gives exactly
\* one of: unchanged with -5, unchanged with -1, moved one cell along the
\* requested axis with -1, or moved one cell along the requested axis onto
\* the goal with +20 and done.
C4_FourOutcomes ==
    (NonTerminalStep /\ last.action \in 0 .. 3) =>
        /\ state = last.pos
        /\ HowMany(<<ObstacleBlocked, BoundaryBlocked, MovedOneCell,
                     MovedOntoGoal>>) = 1

\* C4 witness: a step onto the goal, the outcome outside the three listed.
C4_Witness ==
    /\ NonTerminalStep
    /\ last.action = 3
    /\ last.pre = <<9, 8>>
    /\ MovedOntoGoal

\* C5: for every step call done is true exactly when the position after the
\* step is the goal, the reward is +20 exactly when done is true, and when
\* done is false the reward is -1 or -5.
C5_DoneIffGoal ==
    Returned("step") =>
        /\ last.done <=> (state = goal)
        /\ (last.reward = 20) <=> last.done
        /\ ~last.done => last.reward \in {-1, -5}

\* C5 witness: a step that ended the episode.
C5_Witness ==
    /\ NonTerminalStep
    /\ state = goal
    /\ last.done
    /\ last.reward = 20
    /\ last.action = 1

\* C6: "down" from (8,9) and "right" from (9,8) put the agent on (9,9) and
\* step returns position (9,9), reward +20 and done = true.
C6_GoalFromNeighbour ==
    (/\ Returned("step")
     /\ \/ last.pre = <<8, 9>> /\ last.action = 1
        \/ last.pre = <<9, 8>> /\ last.action = 3) =>
        /\ state = <<9, 9>>
        /\ last.pos = <<9, 9>>
        /\ last.reward = 20
        /\ last.done

\* C6 witness: "down" was taken from (8,9).
C6_Witness ==
    /\ Returned("step")
    /\ last.pre = <<8, 9>>
    /\ last.action = 1
    /\ state = goal

\* C7: from a non-terminal position, an action 0..3 whose computed next cell
\* is an obstacle leaves the agent on its pre-step cell and returns reward
\* -5 and done = false.
C7_ObstacleBlocks ==
    (/\ NonTerminalStep
     /\ last.action \in 0 .. 3
     /\ NextCell(last.pre, last.action) \in obstacles) =>
        /\ state = last.pre
        /\ last.pos = last.pre
        /\ last.reward = -5
        /\ ~last.done

\* C7 witness: "down" from (0,1), whose next cell (1,1) is an obstacle.
C7_Witness ==
    /\ Returned("step")
    /\ last.pre = <<0, 1>>
    /\ last.action = 1
    /\ state = <<0, 1>>
    /\ last.reward = -5

\* The action points off the grid from s.
OffGrid(s, action) ==
    \/ action = 0 /\ s[1] = 0
    \/ action = 1 /\ s[1] = grid_size - 1
    \/ action = 2 /\ s[2] = 0
    \/ action = 3 /\ s[2] = grid_size - 1

\* C8: from a non-terminal position on an edge, the action that points off
\* the grid leaves the position unchanged and returns -1, never -5, with
\* done = false.
C8_BoundaryBlocks ==
    (NonTerminalStep /\ OffGrid(last.pre, last.action)) =>
        /\ state = last.pre
        /\ last.pos = last.pre
        /\ last.reward = -1
        /\ ~last.done

\* C8 witness: "up" from (0,5) on the top row.
C8_Witness ==
    /\ Returned("step")
    /\ last.pre = <<0, 5>>
    /\ last.action = 0
    /\ state = <<0, 5>>
    /\ last.reward = -1

\* C9: from a non-terminal position, an action 0..3 whose next cell is inside
\* the grid, no obstacle and not the goal moves the agent to exactly that
\* cell and returns reward -1 and done = false.
C9_FreeMove ==
    (/\ NonTerminalStep
     /\ last.action \in 0 .. 3
     /\ InBounds(Target(last.pre, last.action))
     /\ Target(last.pre, last.action) \notin obstacles
     /\ Target(last.pre, last.action) # goal) =>
        /\ state = Target(last.pre, last.action)
        /\ last.pos = Target(last.pre, last.action)
        /\ last.reward = -1
        /\ ~last.done

\* C9 witness: "down" from (0,2) to the free cell (1,2).
C9_Witness ==
    /\ Returned("step")
    /\ last.pre = <<0, 2>>
    /\ last.action = 1
    /\ state = <<1, 2>>
    /\ last.reward = -1

\* C10 as stated: from every agent position an action code outside 0..3 is
\* not rejected, leaves the position unchanged and costs the step penalty -1.
C10_InvalidCodeCostsOne ==
    (pc = "idle" /\ last.op \in {"step", "raise"} /\ last.pre # None
       /\ last.action \notin 0 .. 3) =>
        /\ last.op = "step"
        /\ state = last.pre
        /\ last.pos = last.pre
        /\ last.reward = -1

\* C10 as amended: from every agent position an action code outside 0..3 is
\* not rejected and leaves the position unchanged; from every position other
\* than the goal the step penalty -1 applies with done = false.
C10_InvalidCodeNoOp ==
    (pc = "idle" /\ last.op \in {"step", "raise"} /\ last.pre # None
       /\ last.action \notin 0 .. 3) =>
        /\ last.op = "step"
        /\ state = last.pre
        /\ last.pos = last.pre
        /\ last.pre # goal => (last.reward = -1 /\ ~last.done)

\* C10 witness: the code 4 was passed at (3,4), next to obstacles.
C10_Witness ==
    /\ Returned("step")
    /\ last.action = 4
    /\ last.pre = <<3, 4>>
    /\ state = <<3, 4>>
    /\ last.reward = -1

\* C11 as stated: two instances constructed with the same seed that were
\* given the same calls so far have returned the same results so far,
\* however the constructions and the calls were interleaved.
C11_SameSeedSameRuns ==
    \A k \in 1 .. MaxCalls :
        (/\ envs["a"].made /\ envs["b"].made
         /\ k <= Len(envs["a"].calls) /\ k <= Len(envs["b"].calls)
         /\ SubSeq(envs["a"].calls, 1, k) = SubSeq(envs["b"].calls, 1, k))
        => SubSeq(envs["a"].outs, 1, k) = SubSeq(envs["b"].outs, 1, k)

\* C12 as stated: render() runs the setup exactly when it is the first
\* render since construction or since the last close() and never while
\* Active; close() leaves the renderer Uninitialized, with nothing acquired,
\* whether or not it was Active.
C12_TwoStateLifecycle ==
    /\ rlast.op = "render" => ((rlast.setup # "none") <=> rlast.first)
    /\ rlast.op = "close" => (~render_initialized /\ display = "closed")
    /\ render_initialized => display = "open" \/ pc = "exited"

\* C13 as stated: once close() has returned, no display surface acquired by
\* render() remains, also when the first render aborted on a missing image;
\* a user's close signal releases it too.
C13_DisplayReleased ==
    /\ rlast.op = "close" => display = "closed"
    /\ (rlast.op = "render" /\ rlast.end = "exit") => display = "closed"

\* C14: plot_comparison_with_baseline fails with a validation error for
\* every label other than "Q-learning" and "SARSA", before any chart object
\* is created, and raises no validation error for those two labels.
C14_LabelValidated ==
    plot.end # "none" =>
        IF plot.algorithm \in {"Q-learning", "SARSA"}
        THEN plot.end # "ValueError"
        ELSE /\ plot.end = "ValueError"
             /\ plot.pc = "idle"
             /\ plot.made = 0
             /\ plot.selected = {}

\* C14 witness: the label "sarsa" was rejected after an accepted call had
\* made a chart.
C14_Witness ==
    /\ plot.algorithm = "sarsa"
    /\ plot.end = "ValueError"
    /\ plot.made = 0
    /\ figures = 1

\* C15: reset and step change no field but the agent position: in every
\* reachable state the grid size is 10, the obstacle set is exactly
\* {(1,1),(2,2),(3,3),(4,4),(5,5)}, the goal is (9,9), and the goal is no
\* obstacle cell.
C15_FieldsFixed ==
    /\ grid_size = 10
    /\ obstacles = {<<1, 1>>, <<2, 2>>, <<3, 3>>, <<4, 4>>, <<5, 5>>}
    /\ goal = <<9, 9>>
    /\ goal \notin obstacles

\* C15 witness: a reset() has returned after a step that ran into (5,5).
C15_Witness ==
    /\ Returned("reset")
    /\ last.pre = <<5, 4>>
    /\ last.pos = <<6, 5>>
    /\ <<5, 5>> \in obstacles

\* C16: reset() keeps drawing while the drawn cell is an obstacle or the
\* goal, with no cap; under fair sampling every call eventually returns, and
\* the first accepted cell is the agent position it returns.
C16_ResetTerminates ==
    /\ (pc = "reset") ~> (pc = "idle" /\ last.op = "reset" /\ state = last.pos)
    /\ [][pc = "reset" =>
            /\ pc' = "idle"
            /\ Accept(state'[1], state'[2])
            /\ last'.op = "reset"
            /\ last'.pos = state']_vars

\* C16 witness: a second reset() has returned while the agent stood on a
\* cell next to an obstacle.
C16_Witness ==
    /\ Returned("reset")
    /\ last.pre = <<1, 2>>
    /\ last.pos = <<0, 0>>

\* Every cell of the grid.
Cells == RandInt \X RandInt

\* The cells reset() can return.
StartCells == {c \in Cells : Accept(c[1], c[2])}

\* The cells from which some sequence of actions 0..3 ends in a step that
\* returns done = true: those one step away, then those a step away from them.
RECURSIVE Winning(_)
Winning(R) ==
    LET more == {c \in Cells \ (R \cup obstacles) :
                    \E action \in 0 .. 3 :
                        LET r == StepReturn(c, action)
                        IN  r.done \/ r.pos \in R}
    IN  IF more = {} THEN R ELSE Winning(R \cup more)

\* C17: from every cell reset() can return there is a finite sequence of
\* actions 0..3 after which step returns done = true.
C17_GoalReachable ==
    Returned("reset") =>
        LET W == Winning({})
        IN  /\ state \in W
            /\ StartCells \subseteq W

\* C17 witness: reset() returned the corner farthest from the goal.
C17_Witness ==
    /\ Returned("reset")
    /\ last.pre = None
    /\ state = <<0, 0>>

\* C18: the goal is not absorbing: a step taken on (9,9) without a reset is
\* an ordinary move: action 0 or 2 moves the agent off the goal with reward
\* -1 and done = false; action 1, action 3 or an invalid code leaves it on
\* the goal and returns reward +20 and done = true again.
C18_GoalNotAbsorbing ==
    /\ (pc = "idle" /\ state = goal) => ENABLED Step
    /\ (Returned("step") /\ last.pre = goal) =>
          IF last.action \in {0, 2}
          THEN /\ state = Target(goal, last.action)
               /\ last.pos = state
               /\ last.reward = -1
               /\ ~last.done
          ELSE /\ state = goal
               /\ last.pos = goal
               /\ last.reward = 20
               /\ last.done

\* C18 witness: "up" was taken on the goal and moved the agent to (8,9).
C18_Witness ==
    /\ Returned("step")
    /\ last.pre = <<9, 9>>
    /\ last.action = 0
    /\ state = <<8, 9>>
    /\ ~last.done

\* C19: step before the first reset fails with an error instead of
\* returning a result and leaves the position unset; only reset sets a
\* position that was unset.
C19_StepBeforeResetFails ==
    /\ [](Returned("raise") => (state = None /\ last.pre = None))
    /\ [](state = None => last.op \in {"init", "raise"})
    /\ [][(state = None /\ state' # None) => last'.op = "reset"]_vars

\* C19 witness: step(1) was called on the fresh instance and raised.
C19_Witness ==
    /\ Returned("raise")
    /\ last.action = 1
    /\ state = None

====
